---- MODULE Spec2Model ----
(***************************************************************************)
(* A model of code-tracer-cli (src/index.js): the fact extractor           *)
(* (analyzeFiles / traverseAst), the graph diagnostics                     *)
(* (checkCircularDependencies / detectUnusedFiles) and the run             *)
(* (displayOverview followed by process.exit).                             *)
(***************************************************************************)
EXTENDS Integers, Sequences, FiniteSets, TLC

VARIABLES
    pc,             \* position of the run / of the extraction
    rootListable,   \* environment: fs.readdirSync(projectDir) succeeds
    inventory,      \* environment: what getAllFiles(projectDir) finds, in order
    disk,           \* environment: path -> file (readable, parses, ast)
    files,          \* displayOverview: let files
    idx,            \* 1-based position of the loop over files that is running
    overview,       \* the FILE OVERVIEW rows printed by lines 243-255
    functionSizes,  \* analyzeFiles: let functionSizes
    imports,        \* analyzeFiles: let imports
    largeFunctions, \* displayOverview: let largeFunctions
    sortedImports,  \* displayOverview: let sortedImports
    circularOut,    \* what checkCircularDependencies reported
    unusedFiles,    \* displayOverview: const unusedFiles
    madgeCalls,     \* outcome of each call of madge(), in call order
    madgeObj,       \* the edge map result.obj() returned to detectUnusedFiles
    log,            \* console output: sequence of [level, text]
    caught,         \* the catch blocks entered, in order
    exitCode,       \* <<>> while running, <<status>> once process.exit ran
    root            \* the syntax tree handed to traverseAst (extraction only)

vars == <<pc, rootListable, inventory, disk, files, idx, overview, functionSizes,
          imports, largeFunctions, sortedImports, circularOut, unusedFiles,
          madgeCalls, madgeObj, log, caught, exitCode, root>>

----------------------------------------------------------------------------
(* Bounds of the model *)

\* depth of the syntax trees drawn for the extractor
MaxDepth == 3
\* number of source files the project directory may hold
MaxFiles == 3

----------------------------------------------------------------------------
(* Program constants *)

\* src/index.js:260  functionSizes.filter((fn) => fn.size > 50)
LargeThreshold == 50
\* src/index.js:278  .slice(0, 5)
TopImports == 5
\* src/index.js:306  process.exit(0)
ExitStatus == 0

----------------------------------------------------------------------------
(* JavaScript values that reach the import tally *)

\* a Literal node's value: a string, or a number (kept with its decimal text)
StrVal(s) == [kind |-> "string", text |-> s]
NumVal(s) == [kind |-> "number", text |-> s]
NoVal == [kind |-> "undefined", text |-> ""]

\* imports[v]: the property key of a value is ToString(v)
PropertyKey(v) == v.text

\* a tally slot holds a number, or a string once + has concatenated
Num(n) == [isNum |-> TRUE, n |-> n, s |-> ""]
Str(s) == [isNum |-> FALSE, n |-> 0, s |-> s]

\* let imports = {} is an ordinary object: these keys are inherited functions
ObjectPrototypeKeys ==
    {"constructor", "toString", "valueOf", "hasOwnProperty", "isPrototypeOf",
     "propertyIsEnumerable", "toLocaleString"}
FunctionText == "function Object() { [native code] }"

\* the integer-like property keys among the specifiers drawn: an object lists
\* them before its other keys
IndexKeys == {"5"}

\* imports is kept as its own properties in Object.entries order: <<[key, val]>>
NoImports == <<>>
OwnKeys(obj) == {obj[i].key : i \in 1..Len(obj)}
OwnIndex(obj, k) == CHOOSE i \in 1..Len(obj) : obj[i].key = k

\* (imports[k] || 0) + 1
TallyPlusOne(obj, k) ==
    IF k \in OwnKeys(obj)
    THEN LET v == obj[OwnIndex(obj, k)].val
         IN  IF v.isNum
             THEN (IF v.n = 0 THEN Num(1) ELSE Num(v.n + 1))
             ELSE (IF v.s = "" THEN Num(1) ELSE Str(v.s \o "1"))
    ELSE IF k \in ObjectPrototypeKeys THEN Str(FunctionText \o "1")
    ELSE Num(1)

\* imports[k] = (imports[k] || 0) + 1
Tally(obj, k) ==
    LET v == TallyPlusOne(obj, k)
    IN  IF k \in OwnKeys(obj)
        THEN [obj EXCEPT ![OwnIndex(obj, k)].val = v]
        ELSE IF k \in IndexKeys
        THEN <<[key |-> k, val |-> v]>> \o obj
        ELSE Append(obj, [key |-> k, val |-> v])

----------------------------------------------------------------------------
(* Syntax trees as acorn returns them (locations: true) *)

NoName == ""
FunctionTypes == {"FunctionDeclaration", "FunctionExpression",
                  "ArrowFunctionExpression"}

Node(type, name, id, startLine, endLine, value, callee, arguments, kids) ==
    [type |-> type, name |-> name, id |-> id,
     startLine |-> startLine, endLine |-> endLine, value |-> value,
     callee |-> callee, arguments |-> arguments, kids |-> kids]

Ident(n)   == Node("Identifier", n, NoName, 1, 1, NoVal, <<>>, <<>>, <<>>)
Lit(v)     == Node("Literal", NoName, NoName, 1, 1, v, <<>>, <<>>, <<>>)
\* import ... from "<src>": node.source.value is src; node.source is a child
Import(src) ==
    Node("ImportDeclaration", NoName, NoName, 1, 1, StrVal(src), <<>>, <<>>,
         <<Lit(StrVal(src))>>)
Call(callee, args) ==
    Node("CallExpression", NoName, NoName, 1, 1, NoVal, <<callee>>, args, <<>>)
\* a function of the given kind; id is its declared name or NoName (node.id null)
Fn(type, id, startLine, endLine, body) ==
    Node(type, NoName, id, startLine, endLine, NoVal, <<>>, <<>>, body)
Block(kids) ==
    Node("BlockStatement", NoName, NoName, 1, 1, NoVal, <<>>, <<>>, kids)
Program(kids) ==
    Node("Program", NoName, NoName, 1, 1, NoVal, <<>>, <<>>, kids)

\* for (let key in node) if (node[key] && typeof node[key] === "object"):
\* the node-valued fields in acorn's field order (callee, arguments, then the rest)
Children(node) == node.callee \o node.arguments \o node.kids

----------------------------------------------------------------------------
(* analyzeFiles / traverseAst *)

\* lines 89-90, with the console and the catch blocks entered so far
NoFacts(log0, caught0) ==
    [functionSizes |-> <<>>, imports |-> NoImports,
     log |-> log0, caught |-> caught0]

Anonymous == "(anonymous)"

\* lines 93-114: what one visited node adds to the accumulators
VisitNode(node, file, acc) ==
    IF node.type \in FunctionTypes
    THEN [acc EXCEPT !.functionSizes =
            Append(@, [name |-> IF node.id # NoName THEN node.id ELSE Anonymous,
                       size |-> node.endLine - node.startLine,
                       file |-> file])]
    ELSE IF node.type = "ImportDeclaration"
    THEN [acc EXCEPT !.imports = Tally(@, PropertyKey(node.value))]
    ELSE IF /\ node.type = "CallExpression"
            /\ node.callee[1].name = "require"
            /\ Len(node.arguments) > 0
            /\ node.arguments[1].type = "Literal"
    THEN [acc EXCEPT !.imports = Tally(@, PropertyKey(node.arguments[1].value))]
    ELSE acc

\* statements run one after the other: v has its value before e is computed
Once(v, e) == IF v = v THEN e ELSE v

RECURSIVE traverseAst(_, _, _)
RECURSIVE traverseEach(_, _, _, _)
\* lines 116-120: every object-valued field is traversed
traverseEach(nodes, i, file, acc) ==
    IF i > Len(nodes) THEN acc
    ELSE LET next == traverseAst(nodes[i], file, acc)
         IN  Once(next, traverseEach(nodes, i + 1, file, next))

\* a traversal that does not descend below a function node
TraverseStopAtFunction(node, file, acc) ==
    IF node.type \in FunctionTypes THEN VisitNode(node, file, acc)
    ELSE traverseEach(Children(node), 1, file, VisitNode(node, file, acc))

traverseAst(node, file, acc) ==
    traverseEach(Children(node), 1, file, VisitNode(node, file, acc))

----------------------------------------------------------------------------
(* Paths *)

\* the directory given with --dir, resolved (line 15)
projectDir == [abs |-> TRUE, segs |-> <<"proj">>]
NoPath == [abs |-> FALSE, segs |-> <<>>]
\* a path relative to the scanned directory, as madge names a module
Rel(name) == [abs |-> FALSE, segs |-> <<name>>]
\* path.join(dir, file)
Join(dir, name) == [abs |-> dir.abs, segs |-> Append(dir.segs, name)]
\* path.resolve(base, p): an absolute p stands, a relative one is joined to base
Resolve(base, p) ==
    IF p.abs THEN p ELSE [abs |-> TRUE, segs |-> base.segs \o p.segs]

\* the names a project directory may hold, MaxFiles of them
FileNames == <<"a.js", "b.js", "c.js", "d.js", "e.js">>
Names == {FileNames[i] : i \in 1..MaxFiles}

----------------------------------------------------------------------------
(* The syntax trees drawn for the extractor *)

RequireId == Ident("require")

\* the function expressions wrapped around an expression e
FnsAround(e) ==
    {Fn("FunctionExpression", NoName, 1, 1, <<e>>),
     Fn("FunctionExpression", "f", 1, 52, <<Block(<<e>>)>>),
     Fn("ArrowFunctionExpression", NoName, 1, 51, <<e>>)}

RECURSIVE Exprs(_)
Exprs(d) ==
    IF d = 0
    THEN {Ident("x"), Lit(StrVal("./a")), Lit(NumVal("5"))}
    ELSE LET S == Exprs(d - 1)
         IN  S \cup {Call(RequireId, <<>>)}
               \cup {Call(RequireId, <<e>>) : e \in S}
               \cup {Call(RequireId, <<Lit(StrVal("./b")), e>>) : e \in S}
               \cup {Call(Ident("load"), <<e>>) : e \in S}
               \cup {Call(e, <<>>) : e \in S}
               \cup UNION {FnsAround(e) : e \in S}

\* what may stand before the expression at the top level of a module
Heads ==
    {<<>>, <<Import("./a")>>, <<Import("constructor")>>,
     <<Fn("FunctionDeclaration", "g", 1, 51, <<Block(<<>>)>>)>>}

Roots == {Program(h \o <<e>>) : h \in Heads, e \in Exprs(MaxDepth)}

\* the function nodes of a tree, counted node by node
RECURSIVE CountFunctions(_)
RECURSIVE CountFunctionsIn(_, _)
CountFunctionsIn(nodes, i) ==
    IF i > Len(nodes) THEN 0
    ELSE CountFunctions(nodes[i]) + CountFunctionsIn(nodes, i + 1)
CountFunctions(node) ==
    (IF node.type \in FunctionTypes THEN 1 ELSE 0)
    + CountFunctionsIn(Children(node), 1)

----------------------------------------------------------------------------
(* Extraction of one tree: traverseAst(ast, file) on fresh accumulators *)

Idle ==
    /\ rootListable = TRUE /\ inventory = <<>> /\ disk = <<>> /\ files = <<>>
    /\ idx = 1
    /\ overview = <<>> /\ largeFunctions = <<>> /\ sortedImports = <<>>
    /\ circularOut = <<>> /\ unusedFiles = <<>> /\ madgeCalls = <<>>
    /\ madgeObj = <<>> /\ log = <<>> /\ caught = <<>> /\ exitCode = <<>>

InitExtract ==
    /\ pc = "parsed"
    /\ root \in Roots
    /\ functionSizes = <<>>
    /\ imports = NoImports
    /\ Idle

Extract ==
    /\ pc = "parsed"
    /\ LET acc == traverseAst(root, Join(projectDir, "a.js"), NoFacts(<<>>, <<>>))
       IN  /\ functionSizes' = acc.functionSizes
           /\ imports' = acc.imports
    /\ pc' = "extracted"
    /\ UNCHANGED <<rootListable, inventory, disk, files, idx, overview,
                   largeFunctions, sortedImports, circularOut, unusedFiles,
                   madgeCalls, madgeObj, log, caught, exitCode, root>>

NextExtract == Extract

SpecExtract == InitExtract /\ [][NextExtract]_vars

\* C6: once a tree has been traversed, the number of FunctionSizeRecords equals
\* the number of function-declaration, function-expression and arrow-function
\* nodes of the tree, wherever they are nested.
C6_RecordPerFunctionNode ==
    pc = "extracted" => Len(functionSizes) = CountFunctions(root)

\* a traversed tree with a function nested in a function that is itself the
\* argument of a require call: three records
C6_Witness ==
    /\ pc = "extracted"
    /\ \E e \in FnsAround(Ident("x")) : \E f \in FnsAround(e) :
          root = Program(<<Import("./a"), Call(RequireId, <<Lit(StrVal("./b")), f>>)>>)
    /\ Len(functionSizes) = 2

----------------------------------------------------------------------------
(* The files of the scanned project *)

File(readable, parses, bytes, lines, ast) ==
    [readable |-> readable, parses |-> parses, bytes |-> bytes,
     lines |-> lines, ast |-> ast]

\* fs.readFileSync throws (no read permission); fs.statSync still answers
Unreadable == File(FALSE, FALSE, 40, 0, Program(<<>>))
\* acorn.parse throws
SyntaxErr == File(TRUE, FALSE, 12, 2, Program(<<>>))
\* import x from "./a"; import y from "./a"; require("./b");
TwoImports ==
    File(TRUE, TRUE, 70, 3,
         Program(<<Import("./a"), Import("./a"),
                   Call(RequireId, <<Lit(StrVal("./b"))>>)>>))
\* import "./b"; function big() {...51 lines down}; function edge() {...50 lines
\* down}; load(() => 1);
Functions ==
    File(TRUE, TRUE, 900, 121,
         Program(<<Import("./b"),
                   Fn("FunctionDeclaration", "big", 2, 53, <<Block(<<>>)>>),
                   Fn("FunctionDeclaration", "edge", 60, 110, <<Block(<<>>)>>),
                   Call(Ident("load"),
                        <<Fn("ArrowFunctionExpression", NoName, 120, 120,
                             <<Lit(NumVal("5"))>>)>>)>>))
\* import c from "constructor"; require(5); require(x); require("./a");
OddRequires ==
    File(TRUE, TRUE, 80, 4,
         Program(<<Import("constructor"),
                   Call(RequireId, <<Lit(NumVal("5"))>>),
                   Call(RequireId, <<Ident("x")>>),
                   Call(RequireId, <<Lit(StrVal("./a"))>>)>>))

ProjectFiles == {Unreadable, SyntaxErr, TwoImports, Functions, OddRequires}

\* the names of S in directory order, as getAllFiles pushes them (lines 59-68)
RECURSIVE Listing(_, _)
Listing(S, i) ==
    IF i > Len(FileNames) THEN <<>>
    ELSE (IF FileNames[i] \in S THEN <<Join(projectDir, FileNames[i])>> ELSE <<>>)
         \o Listing(S, i + 1)

Range(q) == {q[i] : i \in 1..Len(q)}

----------------------------------------------------------------------------
(* Console *)

Line(level, text, about) == [level |-> level, text |-> text, about |-> about]
Say(text) == Line("log", text, NoPath)
Failures(l) == {i \in 1..Len(l) : l[i].level \in {"warn", "error"}}

----------------------------------------------------------------------------
(* analyzeFiles, lines 123-142 *)

\* the body of the for loop: try { read, parse, traverse } catch { warn }
tryFile(file, acc) ==
    IF disk[file].readable /\ disk[file].parses
    THEN traverseAst(disk[file].ast, file, acc)
    ELSE [acc EXCEPT
            !.log = Append(@, Line("warn", "Skipping file due to parsing error", file)),
            !.caught = Append(@, "analyzeFiles")]

RECURSIVE analyzeLoop(_, _, _)
analyzeLoop(fs, i, acc) ==
    IF i > Len(fs) THEN acc
    ELSE LET next == tryFile(fs[i], acc)
         IN  Once(next, analyzeLoop(fs, i + 1, next))

analyzeFiles(fs, log0, caught0) == analyzeLoop(fs, 1, NoFacts(log0, caught0))

\* countLines, lines 76-83: the catch returns 0 and prints nothing
countLines(file, caught0) ==
    IF disk[file].readable
    THEN [lines |-> disk[file].lines, caught |-> caught0]
    ELSE [lines |-> 0, caught |-> Append(caught0, "countLines")]

\* getAllFiles(projectDir), lines 55-71: the listing, or a throw of readdirSync
getAllFiles == [threw |-> ~rootListable, files |-> inventory]

----------------------------------------------------------------------------
(* displayOverview, lines 259-291 *)

\* functionSizes.filter((fn) => fn.size >= 50)
LargeFunctionsInclusive(sizes) ==
    SelectSeq(sizes, LAMBDA fn : fn.size >= LargeThreshold)

\* line 260: functionSizes.filter((fn) => fn.size > 50)
LargeFunctionsOf(sizes) ==
    SelectSeq(sizes, LAMBDA fn : fn.size > LargeThreshold)

\* (a, b) => b[1] - a[1]; a difference that is NaN compares as 0
Compare(a, b) ==
    IF a.val.isNum /\ b.val.isNum THEN b.val.n - a.val.n ELSE 0

\* Array.prototype.sort is stable: e goes after everything it does not precede
RECURSIVE InsertSorted(_, _, _)
InsertSorted(sorted, i, e) ==
    IF i > Len(sorted) THEN Append(sorted, e)
    ELSE IF Compare(sorted[i], e) > 0
    THEN SubSeq(sorted, 1, i - 1) \o <<e>> \o SubSeq(sorted, i, Len(sorted))
    ELSE InsertSorted(sorted, i + 1, e)

RECURSIVE SortEntries(_, _, _)
SortEntries(entries, i, sorted) ==
    IF i > Len(entries) THEN sorted
    ELSE SortEntries(entries, i + 1, InsertSorted(sorted, 1, entries[i]))

\* lines 276-278: Object.entries(imports).sort(...).slice(0, 5)
SortedImportsOf(entries) ==
    LET sorted == SortEntries(entries, 1, <<>>)
    IN  SubSeq(sorted, 1, IF Len(sorted) < TopImports THEN Len(sorted) ELSE TopImports)

----------------------------------------------------------------------------
(* What madge may answer *)

A == Rel("a.js")
B == Rel("b.js")
C == Rel("c.js")

\* result.circular(): the cycles madge reports, each a list of modules
CircularResults == {<<>>, <<<<A, B>>>>, <<<<A, B, C>>, <<B, C>>>>}

\* result.obj(): module -> the modules it depends on
EdgeMaps ==
    {<<>>,
     (A :> {B}) @@ (B :> {}),
     (A :> {B}) @@ (B :> {C}) @@ (C :> {A}),
     (A :> {B, C}) @@ (B :> {}) @@ (C :> {}),
     (A :> {}) @@ (B :> {}) @@ (C :> {}),
     (B :> {A})}

\* the union of all target sets of an edge map, resolved
Targets(obj) == {Resolve(projectDir, t) : t \in UNION {obj[k] : k \in DOMAIN obj}}

----------------------------------------------------------------------------
(* The run: displayOverview().then(() => process.exit(0)) *)

Init ==
    /\ pc = "start"
    /\ rootListable \in BOOLEAN
    /\ \E S \in SUBSET Names :
          /\ inventory = Listing(IF rootListable THEN S ELSE {}, 1)
          /\ disk \in [Range(inventory) -> ProjectFiles]
    /\ files = <<>>
    /\ idx = 1
    /\ overview = <<>>
    /\ functionSizes = <<>>
    /\ imports = NoImports
    /\ largeFunctions = <<>>
    /\ sortedImports = <<>>
    /\ circularOut = <<>>
    /\ unusedFiles = <<>>
    /\ madgeCalls = <<>>
    /\ madgeObj = <<>>
    /\ log = <<Say("Scanning project")>>
    /\ caught = <<>>
    /\ exitCode = <<>>
    /\ root = Program(<<>>)

\* lines 225-241, and the catch of lines 296-303 when the listing throws
ListFiles ==
    /\ pc = "start"
    /\ IF getAllFiles.threw
       THEN /\ caught' = Append(caught, "displayOverview")
            /\ log' = Append(log, Line("error",
                         "ERROR: An error occurred during the analysis!", projectDir))
            /\ pc' = "settled"
            /\ UNCHANGED files
       ELSE /\ files' = getAllFiles.files
            /\ log' = log \o <<Say("Analysis Completed"), Say("PROJECT BREAKDOWN"),
                               Say("project structure"), Say("FOUND"),
                               Say("FILE OVERVIEW")>>
            /\ pc' = "overview"
            /\ UNCHANGED caught
    /\ idx' = 1
    /\ UNCHANGED <<rootListable, inventory, disk, overview, functionSizes,
                   imports, largeFunctions, sortedImports, circularOut,
                   unusedFiles, madgeCalls, madgeObj, exitCode, root>>

\* one turn of files.forEach, lines 243-255
OverviewFile ==
    /\ pc = "overview"
    /\ idx <= Len(files)
    /\ LET file == files[idx]
           facts == analyzeFiles(<<file>>, log, caught)
           counted == countLines(file, facts.caught)
           row == [file |-> file,
                   functionCount |-> Len(facts.functionSizes),
                   fileSize |-> disk[file].bytes,
                   lineCount |-> counted.lines]
       IN  /\ log' = Append(facts.log, Line("log", "file overview row", file))
           /\ caught' = counted.caught
           /\ overview' = Append(overview, row)
    /\ idx' = idx + 1
    /\ UNCHANGED <<pc, rootListable, inventory, disk, files, functionSizes,
                   imports, largeFunctions, sortedImports, circularOut,
                   unusedFiles, madgeCalls, madgeObj, exitCode, root>>

\* the forEach is over; line 257 calls analyzeFiles(files): lines 89-90
OverviewDone ==
    /\ pc = "overview"
    /\ idx > Len(files)
    /\ functionSizes' = <<>>
    /\ imports' = NoImports
    /\ idx' = 1
    /\ pc' = "analyze"
    /\ UNCHANGED <<rootListable, inventory, disk, files, overview,
                   largeFunctions, sortedImports, circularOut, unusedFiles,
                   madgeCalls, madgeObj, log, caught, exitCode, root>>

\* a loop that a failing file ends: the try around the loop, not inside it
AnalyzeFileAbort ==
    /\ pc = "analyze"
    /\ idx <= Len(files)
    /\ LET acc == tryFile(files[idx],
                          [functionSizes |-> functionSizes, imports |-> imports,
                           log |-> log, caught |-> caught])
       IN  /\ functionSizes' = acc.functionSizes
           /\ imports' = acc.imports
           /\ log' = acc.log
           /\ caught' = acc.caught
    /\ idx' = IF disk[files[idx]].readable /\ disk[files[idx]].parses
              THEN idx + 1 ELSE Len(files) + 1
    /\ UNCHANGED <<pc, rootListable, inventory, disk, files, overview,
                   largeFunctions, sortedImports, circularOut, unusedFiles,
                   madgeCalls, madgeObj, exitCode, root>>

\* one turn of for (let file of files), lines 123-140, in the call of line 257
AnalyzeFile ==
    /\ pc = "analyze"
    /\ idx <= Len(files)
    /\ LET acc == tryFile(files[idx],
                          [functionSizes |-> functionSizes, imports |-> imports,
                           log |-> log, caught |-> caught])
       IN  /\ functionSizes' = acc.functionSizes
           /\ imports' = acc.imports
           /\ log' = acc.log
           /\ caught' = acc.caught
    /\ idx' = idx + 1
    /\ UNCHANGED <<pc, rootListable, inventory, disk, files, overview,
                   largeFunctions, sortedImports, circularOut, unusedFiles,
                   madgeCalls, madgeObj, exitCode, root>>

\* line 142: return { functionSizes, imports }
AnalyzeDone ==
    /\ pc = "analyze"
    /\ idx > Len(files)
    /\ pc' = "report"
    /\ UNCHANGED <<rootListable, inventory, disk, files, idx, overview,
                   functionSizes, imports, largeFunctions, sortedImports,
                   circularOut, unusedFiles, madgeCalls, madgeObj, log, caught,
                   exitCode, root>>

\* lines 259-291
Report ==
    /\ pc = "report"
    /\ largeFunctions' = LargeFunctionsOf(functionSizes)
    /\ sortedImports' = SortedImportsOf(imports)
    /\ log' = log
              \o <<Say("LARGE FUNCTIONS DETECTED")>>
              \o (IF Len(largeFunctions') > 0
                  THEN [i \in 1..Len(largeFunctions') |->
                          Line("log", "large function", largeFunctions'[i].file)]
                  ELSE <<Say("No large functions found")>>)
              \o <<Say("MOST USED IMPORTS")>>
              \o (IF Len(sortedImports') > 0
                  THEN [i \in 1..Len(sortedImports') |-> Say("import count")]
                  ELSE <<Say("No significant imports found")>>)
    /\ pc' = "circular"
    /\ UNCHANGED <<rootListable, inventory, disk, files, idx, overview,
                   functionSizes, imports, circularOut, unusedFiles,
                   madgeCalls, madgeObj, caught, exitCode, root>>

\* the outcomes of await madge(projectDir) followed by result.circular()
CircularOutcomes ==
    {[threw |-> TRUE, circular |-> <<>>]}
    \cup {[threw |-> FALSE, circular |-> c] : c \in CircularResults}

\* a catch that prints nothing
circularCatchSilent(log0) == log0

\* lines 186-191: the catch of checkCircularDependencies
circularCatch(log0) ==
    Append(log0, Line("error", "Error analyzing circular dependencies:", projectDir))

\* checkCircularDependencies, lines 175-192 (awaited at line 293)
CheckCircular ==
    /\ pc = "circular"
    /\ \E r \in CircularOutcomes :
          IF r.threw
          THEN /\ madgeCalls' = Append(madgeCalls, "rejected")
               /\ caught' = Append(caught, "checkCircularDependencies")
               /\ log' = circularCatch(log)
               /\ circularOut' = <<>>
          ELSE /\ madgeCalls' = Append(madgeCalls, "resolved")
               /\ circularOut' = r.circular
               /\ log' = log \o (IF Len(r.circular) > 0
                                 THEN <<Say("Circular Dependencies:")>>
                                      \o [i \in 1..Len(r.circular) |-> Say("cycle")]
                                 ELSE <<Say("No Circular Dependencies Found")>>)
               /\ UNCHANGED caught
    /\ pc' = "unused"
    /\ UNCHANGED <<rootListable, inventory, disk, files, idx, overview,
                   functionSizes, imports, largeFunctions, sortedImports,
                   unusedFiles, madgeObj, exitCode, root>>

\* the outcomes of await madge(projectDir, {...}) followed by result.obj()
ObjOutcomes ==
    {[threw |-> TRUE, obj |-> <<>>]}
    \cup {[threw |-> FALSE, obj |-> g] : g \in EdgeMaps}

\* lines 154-157: the inventory less the resolved keys of the edge map
UnusedOf(dependencies, allFiles) ==
    LET importedFiles == {Resolve(projectDir, k) : k \in DOMAIN dependencies}
    IN  SelectSeq(allFiles, LAMBDA file : file \notin importedFiles)

\* lines 166-169: the catch of detectUnusedFiles
unusedCatch(log0) ==
    Append(log0, Line("error", "Error detecting unused files:", projectDir))

\* a catch that throws again: the failure reaches the catch of lines 296-303
DetectUnusedRethrow ==
    /\ pc = "unused"
    /\ \E r \in ObjOutcomes :
          IF r.threw
          THEN /\ madgeCalls' = Append(madgeCalls, "rejected")
               /\ caught' = caught \o <<"detectUnusedFiles", "displayOverview">>
               /\ log' = Append(unusedCatch(log), Line("error",
                            "ERROR: An error occurred during the analysis!", projectDir))
               /\ pc' = "settled"
               /\ UNCHANGED <<madgeObj, unusedFiles>>
          ELSE /\ madgeCalls' = Append(madgeCalls, "resolved")
               /\ madgeObj' = r.obj
               /\ unusedFiles' = UnusedOf(r.obj, getAllFiles.files)
               /\ log' = log \o (IF Len(unusedFiles') > 0
                                 THEN <<Say("Unused Files Detected:")>>
                                      \o [i \in 1..Len(unusedFiles') |->
                                            Line("log", "unused file", unusedFiles'[i])]
                                 ELSE <<Say("No unused files found")>>)
               /\ pc' = "suggest"
               /\ UNCHANGED caught
    /\ UNCHANGED <<rootListable, inventory, disk, files, idx, overview,
                   functionSizes, imports, largeFunctions, sortedImports,
                   circularOut, exitCode, root>>

\* detectUnusedFiles, lines 148-170 (awaited at line 294)
DetectUnused ==
    /\ pc = "unused"
    /\ \E r \in ObjOutcomes :
          IF r.threw
          THEN /\ madgeCalls' = Append(madgeCalls, "rejected")
               /\ caught' = Append(caught, "detectUnusedFiles")
               /\ log' = unusedCatch(log)
               /\ unusedFiles' = <<>>
               /\ UNCHANGED madgeObj
          ELSE /\ madgeCalls' = Append(madgeCalls, "resolved")
               /\ madgeObj' = r.obj
               /\ unusedFiles' = UnusedOf(r.obj, getAllFiles.files)
               /\ log' = log \o (IF Len(unusedFiles') > 0
                                 THEN <<Say("Unused Files Detected:")>>
                                      \o [i \in 1..Len(unusedFiles') |->
                                            Line("log", "unused file", unusedFiles'[i])]
                                 ELSE <<Say("No unused files found")>>)
               /\ UNCHANGED caught
    /\ pc' = "suggest"
    /\ UNCHANGED <<rootListable, inventory, disk, files, idx, overview,
                   functionSizes, imports, largeFunctions, sortedImports,
                   circularOut, exitCode, root>>

\* provideOptimizationSuggestions(largeFunctions, unusedFiles), lines 197-219
Suggest ==
    /\ pc = "suggest"
    /\ log' = log
              \o <<Say("OPTIMIZATION SUGGESTIONS:")>>
              \o (IF Len(largeFunctions) > 0
                  THEN <<Say("Consider refactoring large functions")>> ELSE <<>>)
              \o (IF Len(unusedFiles) > 0
                  THEN <<Say("Consider removing or refactoring unused files")>>
                  ELSE <<>>)
              \o <<Say("Optimize commonly used imports")>>
    /\ pc' = "settled"
    /\ UNCHANGED <<rootListable, inventory, disk, files, idx, overview,
                   functionSizes, imports, largeFunctions, sortedImports,
                   circularOut, unusedFiles, madgeCalls, madgeObj, caught,
                   exitCode, root>>

\* line 306: .then(() => process.exit(0))
Exit ==
    /\ pc = "settled"
    /\ exitCode' = <<ExitStatus>>
    /\ pc' = "exited"
    /\ UNCHANGED <<rootListable, inventory, disk, files, idx, overview,
                   functionSizes, imports, largeFunctions, sortedImports,
                   circularOut, unusedFiles, madgeCalls, madgeObj, log, caught,
                   root>>

Next ==
    \/ ListFiles
    \/ OverviewFile
    \/ OverviewDone
    \/ AnalyzeFile
    \/ AnalyzeDone
    \/ Report
    \/ CheckCircular
    \/ DetectUnused
    \/ Suggest
    \/ Exit

Spec == Init /\ [][Next]_vars

----------------------------------------------------------------------------
(* Claims about the run *)

\* the files among fs that are read and parsed
Parsed(fs) == SelectSeq(fs, LAMBDA f : disk[f].readable /\ disk[f].parses)
\* the files the loop of line 123 has been through
Done == IF pc \in {"start", "overview"} THEN <<>> ELSE SubSeq(files, 1, idx - 1)

\* C3: a file whose parse fails adds no FunctionSizeRecord and no tally, and the
\* files after it are still processed: the facts gathered from the files gone
\* through are the facts of those files with the failing ones removed, and
\* the loop goes through every file before it returns.
C3_FailingFilesAddNothing ==
    /\ pc \notin {"start", "overview"} =>
          /\ functionSizes = analyzeFiles(Parsed(Done), <<>>, <<>>).functionSizes
          /\ imports = analyzeFiles(Parsed(Done), <<>>, <<>>).imports
          /\ \A i \in 1..Len(functionSizes) : functionSizes[i].file \in Range(Parsed(Done))
    /\ pc \in {"report", "circular", "unused", "suggest", "settled", "exited"} => Done = files

\* the loop has returned after a failing file that was followed by a file
\* which parsed and gave facts
C3_Witness ==
    /\ pc = "report"
    /\ \E i \in 1..Len(files) : \E j \in (i + 1)..Len(files) :
          /\ ~disk[files[i]].parses
          /\ disk[files[j]] = Functions
    /\ Len(functionSizes) >= 3
    /\ Len(imports) >= 1

\* the files of the inventory that are in no target set of the edge map
NonTargets(obj, allFiles) ==
    SelectSeq(allFiles, LAMBDA file : file \notin Targets(obj))

\* C1: once detectUnusedFiles has returned from an edge map, the unused files
\* are exactly the files of the inventory that no key's dependency set holds.
C1_UnusedAreNonTargets ==
    (pc \in {"suggest", "settled", "exited"} /\ Len(madgeCalls) = 2
        /\ madgeCalls[2] = "resolved")
    => unusedFiles = NonTargets(madgeObj, files)

\* C2: a run whose root directory could not be listed ends with a non-zero
\* exit status.
C2_ListingFailureExitsNonZero ==
    (pc = "exited" /\ ~rootListable) => exitCode[1] # 0

\* the lines the console shows for a failed call of the Module Resolver
ResolverFailureLines ==
    {i \in 1..Len(log) : log[i].text \in {"Error analyzing circular dependencies:",
                                          "Error detecting unused files:"}}
RejectedCalls == {i \in 1..Len(madgeCalls) : madgeCalls[i] = "rejected"}
HasLine(text) == \E i \in 1..Len(log) : log[i].text = text
Shown(text) == Cardinality({i \in 1..Len(log) : log[i].text = text})

C5_ResolverFailureNotFatal ==
    /\ 1 \in RejectedCalls => circularOut = <<>>
    /\ 2 \in RejectedCalls => unusedFiles = <<>>
    /\ RejectedCalls # {} =>
          /\ pc \in {"unused", "suggest", "settled", "exited"}
          /\ HasLine("LARGE FUNCTIONS DETECTED")
          /\ HasLine("MOST USED IMPORTS")
          /\ pc \in {"suggest", "settled", "exited"} => Len(madgeCalls) = 2
          /\ pc \in {"settled", "exited"} => HasLine("OPTIMIZATION SUGGESTIONS:")
          /\ pc = "exited" => exitCode = <<ExitStatus>>

\* a finished run in which both calls failed, after a project that had facts
C5_Witness ==
    /\ pc = "exited"
    /\ madgeCalls = <<"rejected", "rejected">>
    /\ Len(functionSizes) > 0
    /\ HasLine("OPTIMIZATION SUGGESTIONS:")

\* C9: every catch block that was entered has printed a warning or an error.
C9_EveryCaughtFailureLogged ==
    Cardinality(Failures(log)) >= Len(caught)

\* the static imports of s and the require calls with the literal string s
\* as first argument, counted node by node
RECURSIVE CountImports(_, _)
RECURSIVE CountImportsIn(_, _, _)
CountImportsIn(nodes, i, s) ==
    IF i > Len(nodes) THEN 0
    ELSE CountImports(nodes[i], s) + CountImportsIn(nodes, i + 1, s)
CountImports(node, s) ==
    (IF \/ node.type = "ImportDeclaration" /\ node.value = StrVal(s)
        \/ /\ node.type = "CallExpression"
           /\ node.callee[1].type = "Identifier"
           /\ node.callee[1].name = "require"
           /\ Len(node.arguments) > 0
           /\ node.arguments[1].type = "Literal"
           /\ node.arguments[1].value = StrVal(s)
     THEN 1 ELSE 0)
    + CountImportsIn(Children(node), 1, s)

RECURSIVE CountImportsOver(_, _, _)
CountImportsOver(fs, i, s) ==
    IF i > Len(fs) THEN 0
    ELSE CountImports(disk[fs[i]].ast, s) + CountImportsOver(fs, i + 1, s)

\* every string that stands as a specifier or as a tally key in the project
Specifiers == {"./a", "./b", "constructor", "5"}

\* C7: after analyzeFiles, the tally of each specifier is the number of static
\* imports of it plus the number of require calls with it as literal string
\* first argument, over the parsed files; nothing else is tallied and no
\* tally is 0.
C7_TallyCountsImports ==
    pc \in {"report", "circular", "unused", "suggest", "settled", "exited"} =>
       /\ OwnKeys(imports) \subseteq Specifiers
       /\ \A s \in Specifiers :
             LET n == CountImportsOver(Parsed(files), 1, s)
             IN  IF n = 0 THEN s \notin OwnKeys(imports)
                 ELSE /\ s \in OwnKeys(imports)
                      /\ imports[OwnIndex(imports, s)].val = Num(n)

\* the line spans of the function nodes of a tree, in the order they are met
RECURSIVE Spans(_)
RECURSIVE SpansIn(_, _)
SpansIn(nodes, i) ==
    IF i > Len(nodes) THEN <<>>
    ELSE Spans(nodes[i]) \o SpansIn(nodes, i + 1)
Spans(node) ==
    (IF node.type \in FunctionTypes
     THEN <<node.endLine - node.startLine>> ELSE <<>>)
    \o SpansIn(Children(node), 1)

RECURSIVE SpansOver(_, _)
SpansOver(fs, i) ==
    IF i > Len(fs) THEN <<>>
    ELSE Spans(disk[fs[i]].ast) \o SpansOver(fs, i + 1)

\* C10: the size of every FunctionSizeRecord is the end line less the start
\* line of its node, and once the large functions are picked a record is
\* among them exactly when its size is above 50.
C10_SizeAndThreshold ==
    /\ pc \in {"report", "circular", "unused", "suggest", "settled", "exited"} =>
          [i \in 1..Len(functionSizes) |-> functionSizes[i].size]
             = SpansOver(Parsed(files), 1)
    /\ pc \in {"circular", "unused", "suggest", "settled", "exited"} =>
          /\ Range(largeFunctions) \subseteq Range(functionSizes)
          /\ \A i \in 1..Len(functionSizes) :
                functionSizes[i] \in Range(largeFunctions)
                   <=> functionSizes[i].size > 50

\* the large functions are picked from records of size 0, 50 and 51: the one
\* of size 51 is among them, the one of size 50 is not
C10_Witness ==
    /\ pc = "circular"
    /\ \E i, j, k \in 1..Len(functionSizes) :
          /\ functionSizes[i].size = 0
          /\ functionSizes[j].size = 50
          /\ functionSizes[k].size = 51
          /\ functionSizes[j] \notin Range(largeFunctions)
          /\ functionSizes[k] \in Range(largeFunctions)

====
